---- MODULE Spec2Model ----
(***************************************************************************)
(* Message and response normalisation of mirascope: the Anthropic and      *)
(* Cohere message-param converters and the accessors of the OpenAI call    *)
(* response and of the Azure AI call-response chunk.                       *)
(* The converters are pure functions over provider payloads, except that   *)
(* the Anthropic converter reads file-like image sources; they are         *)
(* operators here, applied by one action per call.                         *)
(***************************************************************************)
EXTENDS Integers, Sequences, FiniteSets, TLC

VARIABLES
    op,      \* the call that was made: "idle" before any call
    arg,     \* the argument the call was made with
    res,     \* the outcome of the call: a returned value or a raised error
    files    \* read position of every open file-like object

vars == <<op, arg, res, files>>

----------------------------------------------------------------------------
(* Bounds of the model *)

MaxMsgs == 2          \* longest provider message sequence
MaxItems == 2         \* most content items (a string or a block) in one sequence
MaxToolCalls == 2     \* most tool calls in one sequence or response
MaxToolTypes == 2     \* most tool types registered with a call response
MaxChoices == 2       \* most choices in one completion or chunk

----------------------------------------------------------------------------
(* Python values.  A value whose type or truth value the code tests carries *)
(* its type in t; the payload field is named after the type.               *)

PyNone == [t |-> "NoneType"]
PyStr(s) == [t |-> "str", s |-> s]
\* a str given by its characters in the base64 alphabet (see b64decode)
PyB64Str(c) == [t |-> "str", c |-> c]
PyBytes(b) == [t |-> "bytes", b |-> b]
PyList(l) == [t |-> "list", l |-> l]
PyDict(d) == [t |-> "dict", d |-> d]
\* an object that is no dict: a pydantic TextBlock or ToolUseBlock
PyObject(cls, d) == [t |-> cls, d |-> d]
PyPath(p) == [t |-> "PathLike", p |-> p]
PyFile(f) == [t |-> "BufferedReader", f |-> f]
PyInt(n) == [t |-> "int", n |-> n]
\* a float given in millionths
PyFloat(micro) == [t |-> "float", micro |-> micro]

isinstance(x, type) == x.t = type

\* bool(x): None, "", b"", [] and {} are false, every other object is true
Truthy(x) ==
    CASE x.t = "NoneType" -> FALSE
      [] x.t = "str" -> IF "s" \in DOMAIN x THEN x.s /= "" ELSE x.c /= <<>>
      [] x.t = "bytes" -> x.b /= <<>>
      [] x.t = "list" -> x.l /= <<>>
      [] x.t = "dict" -> DOMAIN x.d /= {}
      [] OTHER -> TRUE

\* d.get(key) of a dict given as a record
Get(d, key) == IF key \in DOMAIN d THEN d[key] ELSE PyNone

Return(v) == [status |-> "return", value |-> v]
Raise(exc, msg, detail) == [status |-> "raise", exc |-> exc, msg |-> msg, detail |-> detail]

----------------------------------------------------------------------------
(* base64.  A base64 text is the sequence of its characters' positions in  *)
(* the alphabet A-Z a-z 0-9 + / (0..63); 64 is the padding '=' and 65 a    *)
(* character outside the alphabet.  Bytes are sequences over 0..255.       *)

\* the 4 characters that encode a final group of 1, 2 or 3 bytes
B64Group(g) ==
    CASE Len(g) = 3 -> << g[1] \div 4, (g[1] % 4) * 16 + g[2] \div 16,
                          (g[2] % 16) * 4 + g[3] \div 64, g[3] % 64 >>
      [] Len(g) = 2 -> << g[1] \div 4, (g[1] % 4) * 16 + g[2] \div 16,
                          (g[2] % 16) * 4, 64 >>
      [] Len(g) = 1 -> << g[1] \div 4, (g[1] % 4) * 16, 64, 64 >>

RECURSIVE b64encode(_)
b64encode(b) ==
    IF b = <<>> THEN <<>>
    ELSE IF Len(b) <= 3 THEN B64Group(b)
    ELSE B64Group(SubSeq(b, 1, 3)) \o b64encode(SubSeq(b, 4, Len(b)))

\* binascii.a2b_base64 in its default non-strict mode, character by
\* character: quad is the position in the current group of 4, left the bits
\* carried over, pads the padding characters seen in a row.
RECURSIVE a2b_base64(_, _, _, _, _, _)
a2b_base64(c, i, quad, left, pads, out) ==
    IF i > Len(c)
    THEN IF quad = 0 THEN Return(out)
         ELSE IF quad = 1
         THEN Raise("binascii.Error", "Invalid base64-encoded string", "")
         ELSE Raise("binascii.Error", "Incorrect padding", "")
    ELSE IF c[i] = 64
    THEN IF quad >= 2 /\ quad + pads + 1 >= 4
         THEN Return(out)
         ELSE a2b_base64(c, i + 1, quad, left,
                         IF quad >= 2 THEN pads + 1 ELSE pads, out)
    ELSE IF c[i] > 64
    THEN a2b_base64(c, i + 1, quad, left, pads, out)
    ELSE CASE quad = 0 -> a2b_base64(c, i + 1, 1, c[i], 0, out)
           [] quad = 1 -> a2b_base64(c, i + 1, 2, c[i] % 16, 0,
                                     Append(out, left * 4 + c[i] \div 16))
           [] quad = 2 -> a2b_base64(c, i + 1, 3, c[i] % 4, 0,
                                     Append(out, left * 16 + c[i] \div 4))
           [] quad = 3 -> a2b_base64(c, i + 1, 0, 0, 0,
                                     Append(out, left * 64 + c[i]))

b64decode(c) == a2b_base64(c, 1, 0, 0, 0, <<>>)

----------------------------------------------------------------------------
(* Files.  A path names a file on disk or nothing; a file-like object is   *)
(* an open binary file with a read position.                               *)

FileObjs == {"f1"}
Paths == {"img.png", "gone.png"}

FileContent(f) == <<77, 97, 110>>
DiskHas(p) == p = "img.png"
DiskContent(p) == <<137, 80>>

\* f.read(): the bytes from the read position to the end
FileRead(f, pos) == SubSeq(FileContent(f), pos[f] + 1, Len(FileContent(f)))
\* the read positions after f.read()
FileAfterRead(f, pos) == [pos EXCEPT ![f] = Len(FileContent(f))]

----------------------------------------------------------------------------
(* The common message model *)

BaseMessageParam(role, content) == [role |-> role, content |-> content]
TextPart(text) == [type |-> "text", text |-> text]
ImagePart(media_type, image, detail) ==
    [type |-> "image", media_type |-> media_type, image |-> image, detail |-> detail]
ToolCallPart(name, args, id) ==
    [type |-> "tool_call", name |-> name, args |-> args, id |-> id]
AudioPart(media_type, audio) == [type |-> "audio", media_type |-> media_type, audio |-> audio]

----------------------------------------------------------------------------
(* AnthropicMessageParamConverter.from_provider *)

AllowedImageMediaTypes == {"image/jpeg", "image/png", "image/gif", "image/webp"}

\* what the loop body does with one block
BlockSkipped(pos) == [k |-> "skip", files |-> pos]
BlockPart(part, tool, pos) == [k |-> "part", part |-> part, tool |-> tool, files |-> pos]
BlockRaised(err, pos) == [k |-> "raise", err |-> err, files |-> pos]

\* the payload of an image source as raw bytes
image_bytes(image_data, pos) ==
    IF isinstance(image_data, "str")
    THEN [out |-> b64decode(image_data.c), files |-> pos]
    ELSE IF isinstance(image_data, "PathLike")
    THEN IF DiskHas(image_data.p)
         THEN [out |-> Return(DiskContent(image_data.p)), files |-> pos]
         ELSE [out |-> Raise("FileNotFoundError", "No such file or directory",
                             image_data.p),
               files |-> pos]
    ELSE IF isinstance(image_data, "BufferedReader")
    THEN [out |-> Return(FileRead(image_data.f, pos)),
          files |-> FileAfterRead(image_data.f, pos)]
    ELSE [out |-> Raise("AttributeError", "object has no attribute 'read'",
                        image_data.t),
          files |-> pos]

text_block(d, pos) ==
    LET text == Get(d, "text") IN
    IF ~isinstance(text, "str")
    THEN BlockRaised(Raise("ValueError",
                           "TextBlockParam must have a string 'text' field.", ""), pos)
    ELSE BlockPart(TextPart(text.s), FALSE, pos)

\* image_block without the allow-list of media types
image_block_without_allow_list(d, pos) ==
    LET source == Get(d, "source") IN
    IF ~Truthy(source) \/ Get(source.d, "type") /= PyStr("base64")
    THEN BlockRaised(Raise("ValueError",
             "ImageBlockParam must have a 'source' with type='base64'.", ""), pos)
    ELSE LET image_data == Get(source.d, "data")
             media_type == Get(source.d, "media_type")
         IN
         IF ~Truthy(image_data) \/ ~Truthy(media_type)
         THEN BlockRaised(Raise("ValueError",
                  "ImageBlockParam source must have 'data' and 'media_type'.", ""), pos)
         ELSE LET decoded_image_data == image_bytes(image_data, pos) IN
              IF decoded_image_data.out.status = "raise"
              THEN BlockRaised(decoded_image_data.out, decoded_image_data.files)
              ELSE BlockPart(ImagePart(media_type.s, decoded_image_data.out.value,
                                       PyNone),
                             FALSE, decoded_image_data.files)

\* image_block with the allow-list consulted before data and media type are
\* checked for presence
image_block_allow_list_first(d, pos) ==
    LET source == Get(d, "source") IN
    IF ~Truthy(source) \/ Get(source.d, "type") /= PyStr("base64")
    THEN BlockRaised(Raise("ValueError",
             "ImageBlockParam must have a 'source' with type='base64'.", ""), pos)
    ELSE LET image_data == Get(source.d, "data")
             media_type == Get(source.d, "media_type")
         IN
         IF media_type \notin { PyStr(m) : m \in AllowedImageMediaTypes }
         THEN BlockRaised(Raise("ValueError", "Unsupported image media type",
                                IF isinstance(media_type, "str") THEN media_type.s
                                ELSE "None"), pos)
         ELSE IF ~Truthy(image_data) \/ ~Truthy(media_type)
         THEN BlockRaised(Raise("ValueError",
                  "ImageBlockParam source must have 'data' and 'media_type'.", ""), pos)
         ELSE LET decoded_image_data == image_bytes(image_data, pos) IN
              IF decoded_image_data.out.status = "raise"
              THEN BlockRaised(decoded_image_data.out, decoded_image_data.files)
              ELSE BlockPart(ImagePart(media_type.s, decoded_image_data.out.value,
                                       PyNone),
                             FALSE, decoded_image_data.files)

image_block(d, pos) ==
    LET source == Get(d, "source") IN
    IF ~Truthy(source) \/ Get(source.d, "type") /= PyStr("base64")
    THEN BlockRaised(Raise("ValueError",
             "ImageBlockParam must have a 'source' with type='base64'.", ""), pos)
    ELSE LET image_data == Get(source.d, "data")
             media_type == Get(source.d, "media_type")
         IN
         IF ~Truthy(image_data) \/ ~Truthy(media_type)
         THEN BlockRaised(Raise("ValueError",
                  "ImageBlockParam source must have 'data' and 'media_type'.", ""), pos)
         ELSE IF media_type.s \notin AllowedImageMediaTypes
         THEN BlockRaised(Raise("ValueError", "Unsupported image media type",
                                media_type.s), pos)
         ELSE LET decoded_image_data == image_bytes(image_data, pos) IN
              IF decoded_image_data.out.status = "raise"
              THEN BlockRaised(decoded_image_data.out, decoded_image_data.files)
              ELSE BlockPart(ImagePart(media_type.s, decoded_image_data.out.value,
                                       PyNone),
                             FALSE, decoded_image_data.files)

tool_use_block(d, pos) ==
    BlockPart(ToolCallPart(d.name, d.input, d.id), TRUE, pos)

\* one iteration of `for block in content`
convert_block(block, pos) ==
    IF ~isinstance(block, "dict") THEN BlockSkipped(pos)
    ELSE IF block.d.type = "text" THEN text_block(block.d, pos)
    ELSE IF block.d.type = "image" THEN image_block(block.d, pos)
    ELSE IF block.d.type = "tool_use" THEN tool_use_block(block.d, pos)
    ELSE BlockRaised(Raise("ValueError", "Unsupported block type", block.d.type), pos)

\* `for block in content` from block j on
RECURSIVE convert_content(_, _, _, _, _)
convert_content(content, j, converted_content, has_tool_call, pos) ==
    IF j > Len(content)
    THEN [status |-> "return", converted_content |-> converted_content,
          has_tool_call |-> has_tool_call, files |-> pos]
    ELSE LET b == convert_block(content[j], pos) IN
         CASE b.k = "skip" ->
                convert_content(content, j + 1, converted_content, has_tool_call,
                                b.files)
           [] b.k = "raise" ->
                [status |-> "raise", err |-> b.err, at |-> j, files |-> b.files]
           [] b.k = "part" ->
                convert_content(content, j + 1, Append(converted_content, b.part),
                                has_tool_call \/ b.tool, b.files)

\* string_message with the string wrapped in a one-element part list
string_message_as_part_list(content) ==
    BaseMessageParam("assistant", PyList(<< TextPart(content.s) >>))

\* the message appended for a content that is a str
string_message(content) == BaseMessageParam("assistant", content)

\* the message appended for a content list once its blocks are converted
list_message(has_tool_call, converted_content) ==
    BaseMessageParam(IF has_tool_call THEN "tool" ELSE "assistant",
                     PyList(converted_content))

\* `for message_param in message_params` from message i on
RECURSIVE Anthropic_convert_from(_, _, _, _)
Anthropic_convert_from(message_params, i, converted, pos) ==
    IF i > Len(message_params)
    THEN [out |-> Return(PyList(converted)), at |-> <<>>, files |-> pos]
    ELSE LET content == message_params[i].content IN
         IF isinstance(content, "str")
         THEN Anthropic_convert_from(message_params, i + 1,
                  Append(converted, string_message(content)), pos)
         ELSE LET c == convert_content(content.l, 1, <<>>, FALSE, pos) IN
              IF c.status = "raise"
              THEN [out |-> c.err, at |-> <<i, c.at>>, files |-> c.files]
              ELSE Anthropic_convert_from(message_params, i + 1,
                       Append(converted,
                              list_message(c.has_tool_call, c.converted_content)),
                       c.files)

\* from_provider(message_params) with the file objects at read positions pos:
\* the outcome, where it raised, and the read positions afterwards
Anthropic_from_provider(message_params, pos) ==
    Anthropic_convert_from(message_params, 1, <<>>, pos)

----------------------------------------------------------------------------
(* CohereMessageParamConverter.from_provider *)

\* the parts of a message that has tool calls
Cohere_converted_content(message_param) ==
    (IF Truthy(message_param.message)
     THEN << TextPart(message_param.message.s) >>
     ELSE << >>)
    \o [k \in 1..Len(message_param.tool_calls.l) |->
          ToolCallPart(message_param.tool_calls.l[k].name,
                       message_param.tool_calls.l[k].parameters, PyNone)]

\* `for message_param in message_params` from message i on
RECURSIVE Cohere_convert_from(_, _, _)
Cohere_convert_from(message_params, i, converted) ==
    IF i > Len(message_params)
    THEN Return(PyList(converted))
    ELSE IF ~Truthy(message_params[i].tool_calls)
    THEN Return(PyObject("BaseMessageParam",
                         BaseMessageParam("assistant", message_params[i].message)))
    ELSE Cohere_convert_from(message_params, i + 1,
             Append(converted,
                    BaseMessageParam("tool",
                        PyList(Cohere_converted_content(message_params[i])))))

Cohere_from_provider(message_params) == Cohere_convert_from(message_params, 1, <<>>)

----------------------------------------------------------------------------
(* OpenAICallResponse: the accessors over the wrapped ChatCompletion *)

\* hasattr(obj, name) of an object given as a record
hasattr(obj, name) == name \in DOMAIN obj

\* tool_type.from_tool_call(tool_call): the tool constructed from the call,
\* or a ValidationError when the arguments do not fit the tool's fields
from_tool_call(tool_type, tool_call) ==
    IF DOMAIN tool_call.function.arguments = tool_type.fields
    THEN Return([t |-> tool_type.cls, tool_call |-> tool_call])
    ELSE Raise("ValidationError", "tool call does not match the tool's schema",
               tool_type.cls)

\* the registered tool types whose _name() is the tool call's function name
matching_tool_types(tool_call, tool_types) ==
    { n \in 1..Len(tool_types) : tool_call.function.name = tool_types[n].name }

\* extract_tools without the `break`: one tool of every registered type of
\* the tool call's name
RECURSIVE extract_tools_of_every_matching_type(_, _, _, _)
extract_tools_of_every_matching_type(tool_calls, k, tool_types, extracted_tools) ==
    IF k > Len(tool_calls) THEN Return(PyList(extracted_tools))
    ELSE LET named == SelectSeq(tool_types,
                          LAMBDA tool_type : tool_calls[k].function.name = tool_type.name)
             tools == [n \in 1..Len(named) |-> from_tool_call(named[n], tool_calls[k])]
             raising == { n \in 1..Len(named) : tools[n].status = "raise" }
         IN
         IF raising /= {}
         THEN tools[CHOOSE n \in raising : \A o \in raising : n <= o]
         ELSE extract_tools_of_every_matching_type(tool_calls, k + 1, tool_types,
                  extracted_tools \o [n \in 1..Len(named) |-> tools[n].value])

\* `for tool_call in tool_calls` from tool call k on
RECURSIVE extract_tools(_, _, _, _)
extract_tools(tool_calls, k, tool_types, extracted_tools) ==
    IF k > Len(tool_calls) THEN Return(PyList(extracted_tools))
    ELSE LET matching == matching_tool_types(tool_calls[k], tool_types) IN
         IF matching = {}
         THEN extract_tools(tool_calls, k + 1, tool_types, extracted_tools)
         ELSE LET first == CHOOSE n \in matching : \A o \in matching : n <= o
                  tool == from_tool_call(tool_types[first], tool_calls[k])
              IN
              IF tool.status = "raise" THEN tool
              ELSE extract_tools(tool_calls, k + 1, tool_types,
                                 Append(extracted_tools, tool.value))

\* tools_of_message with the refusal looked at only when there are tools to match
tools_of_message_refusal_last(message, tool_types) ==
    IF ~Truthy(tool_types) \/ ~Truthy(message.tool_calls)
    THEN Return(PyNone)
    ELSE IF hasattr(message, "refusal") /\ Truthy(message.refusal)
    THEN Raise("ValueError", message.refusal.s, "")
    ELSE extract_tools(message.tool_calls.l, 1, tool_types.l, << >>)

\* the ValueError of a refusal goes first, then the None of nothing to match
tools_of_message(message, tool_types) ==
    IF hasattr(message, "refusal") /\ Truthy(message.refusal)
    THEN Raise("ValueError", message.refusal.s, "")
    ELSE IF ~Truthy(tool_types) \/ ~Truthy(message.tool_calls)
    THEN Return(PyNone)
    ELSE extract_tools(message.tool_calls.l, 1, tool_types.l, << >>)

\* the `tools` property
OpenAI_tools(self) ==
    IF self.response.choices = << >>
    THEN Raise("IndexError", "list index out of range", "")
    ELSE tools_of_message(self.response.choices[1].message, self.tool_types)

\* the `tool` property
OpenAI_tool(self) ==
    LET tools == OpenAI_tools(self) IN
    IF tools.status = "raise" THEN tools
    ELSE IF Truthy(tools.value) THEN Return(tools.value.l[1])
    ELSE Return(PyNone)

\* str(x) of a str or of None
str(x) == IF isinstance(x, "str") THEN x ELSE PyStr("None")

\* the `content` property
OpenAI_content(self) ==
    IF self.response.choices = << >>
    THEN Raise("IndexError", "list index out of range", "")
    ELSE LET message == self.response.choices[1].message IN
         Return(IF message.content /= PyNone THEN message.content ELSE PyStr(""))

\* the `finish_reasons` property
OpenAI_finish_reasons(self) ==
    Return(PyList([k \in 1..Len(self.response.choices) |->
                      str(self.response.choices[k].finish_reason)]))

\* the `model` property
OpenAI_model(self) == Return(self.response.model)

\* the `usage` property
OpenAI_usage(self) == Return(self.response.usage)

\* input_tokens that counts no usage as zero tokens
OpenAI_input_tokens_zero_without_usage(self) ==
    LET usage == OpenAI_usage(self).value IN
    Return(IF Truthy(usage) THEN usage.d.prompt_tokens ELSE PyInt(0))

\* the `input_tokens` property
OpenAI_input_tokens(self) ==
    LET usage == OpenAI_usage(self).value IN
    Return(IF Truthy(usage) THEN usage.d.prompt_tokens ELSE PyNone)

\* the `output_tokens` property
OpenAI_output_tokens(self) ==
    LET usage == OpenAI_usage(self).value IN
    Return(IF Truthy(usage) THEN usage.d.completion_tokens ELSE PyNone)

\* the pricing table: the models it knows, and their rates per token in
\* millionths of a dollar
PricedModels == {"gpt-4o", "gpt-4o-mini"}
PromptRate(model) == IF model = "gpt-4o" THEN 5 ELSE 1
CompletionRate(model) == IF model = "gpt-4o" THEN 15 ELSE 2

\* calculate_cost(input_tokens, output_tokens, model): absent without token
\* counts or without an entry of the pricing table
calculate_cost(input_tokens, output_tokens, model) ==
    IF input_tokens = PyNone \/ output_tokens = PyNone THEN PyNone
    ELSE IF model \notin PricedModels THEN PyNone
    ELSE PyFloat(input_tokens.n * PromptRate(model)
                 + output_tokens.n * CompletionRate(model))

\* the `cost` property
OpenAI_cost(self) ==
    Return(calculate_cost(OpenAI_input_tokens(self).value,
                          OpenAI_output_tokens(self).value,
                          OpenAI_model(self).value))

\* the `message_param` property: the dump of the first choice's message
\* without function_call and audio, then the id of the audio when there is one
OpenAI_message_param(self) ==
    IF self.response.choices = << >>
    THEN Raise("IndexError", "list index out of range", "")
    ELSE LET message == self.response.choices[1].message
             message_param ==
                 [k \in DOMAIN message \ {"function_call", "audio"} |-> message[k]]
             audio == IF hasattr(message, "audio") THEN message.audio ELSE PyNone
         IN
         IF Truthy(audio)
         THEN Return([k \in DOMAIN message_param \cup {"audio"} |->
                         IF k = "audio" THEN [id |-> audio.d.id] ELSE message_param[k]])
         ELSE Return(message_param)

\* A str that the code splits or joins is the sequence of its characters:
\* one of the separators , : ; or a character of the base64 alphabet, or a
\* run of characters that are no separators (runs stand before the comma of
\* a URL only).
Ch(c) == [ch |-> c]
Run(s) == [run |-> s]
B64Ch(n) == [b64 |-> n]

\* s.split(sep, 1)
split_once(s, sep) ==
    IF \E i \in 1..Len(s) : s[i] = sep
    THEN LET i == CHOOSE i \in 1..Len(s) :
                      s[i] = sep /\ \A j \in 1..(i - 1) : s[j] /= sep
         IN << SubSeq(s, 1, i - 1), SubSeq(s, i + 1, Len(s)) >>
    ELSE << s >>

\* s.split(sep)
RECURSIVE split(_, _)
split(s, sep) ==
    LET halves == split_once(s, sep) IN
    IF Len(halves) = 1 THEN halves
    ELSE << halves[1] >> \o split(halves[2], sep)

\* the characters of a str as base64.b64decode sees them
B64Codes(s) == [k \in 1..Len(s) |-> IF "b64" \in DOMAIN s[k] THEN s[k].b64 ELSE 65]

\* the image part of an image_url block whose detail is absent when not given
image_url_part_without_default_detail(part_dict) ==
    LET image_url == part_dict.image_url
        url == image_url.url
        detail == Get(image_url, "detail")
        halves == split_once(url, Ch(","))
    IN
    IF Len(halves) < 2
    THEN Raise("ValueError", "not enough values to unpack (expected 2, got 1)", "")
    ELSE LET media_info == halves[1]
             b64data == halves[2]
             fields == split(media_info, Ch(":"))
         IN
         IF Len(fields) < 2
         THEN Raise("IndexError", "list index out of range", "")
         ELSE LET media_type == split(fields[2], Ch(";"))[1]
                  image_data == b64decode(B64Codes(b64data))
              IN
              IF image_data.status = "raise" THEN image_data
              ELSE Return(ImagePart(media_type, image_data.value, detail))

\* the image part of an image_url block
image_url_part(part_dict) ==
    LET image_url == part_dict.image_url
        url == image_url.url
        detail == IF "detail" \in DOMAIN image_url THEN image_url.detail
                  ELSE PyStr("auto")
        halves == split_once(url, Ch(","))
    IN
    IF Len(halves) < 2
    THEN Raise("ValueError", "not enough values to unpack (expected 2, got 1)", "")
    ELSE LET media_info == halves[1]
             b64data == halves[2]
             fields == split(media_info, Ch(":"))
         IN
         IF Len(fields) < 2
         THEN Raise("IndexError", "list index out of range", "")
         ELSE LET media_type == split(fields[2], Ch(";"))[1]
                  image_data == b64decode(B64Codes(b64data))
              IN
              IF image_data.status = "raise" THEN image_data
              ELSE Return(ImagePart(media_type, image_data.value, detail))

\* the audio part of an input_audio block
input_audio_part(part_dict) ==
    LET audio_info == part_dict.input_audio
        fmt == audio_info.format
        audio_data == b64decode(audio_info.data.c)
        media_type == << Run("audio/") >> \o fmt
    IN
    IF audio_data.status = "raise" THEN audio_data
    ELSE Return(AudioPart(media_type, audio_data.value))

\* the part of one typed block of the content, or the error it raises
common_part(part_dict) ==
    LET part_type == IF "type" \in DOMAIN part_dict THEN part_dict.type ELSE "None" IN
    IF part_type = "text" THEN Return(TextPart(part_dict.text))
    ELSE IF part_type = "image_url" THEN image_url_part(part_dict)
    ELSE IF part_type = "input_audio" THEN input_audio_part(part_dict)
    ELSE Raise("ValueError", "Unsupported part type", part_type)

\* `for part_dict in content` from block k on
RECURSIVE common_parts(_, _, _)
common_parts(content, k, parts) ==
    IF k > Len(content) THEN Return(parts)
    ELSE LET part == common_part(content[k]) IN
         IF part.status = "raise" THEN part
         ELSE common_parts(content, k + 1, Append(parts, part.value))

\* the `common_message_param` property
OpenAI_common_message_param(self) ==
    LET view == OpenAI_message_param(self) IN
    IF view.status = "raise" THEN view
    ELSE LET mp == view.value
             role == mp.role
             content == Get(mp, "content")
         IN
         IF isinstance(content, "str")
         THEN Return(PyObject("BaseMessageParam", BaseMessageParam(role, content)))
         ELSE IF content = PyNone
         THEN Return(PyObject("BaseMessageParam", BaseMessageParam(role, PyStr(""))))
         ELSE LET parts == common_parts(content.l, 1, << >>) IN
              IF parts.status = "raise" THEN parts
              ELSE Return(PyObject("BaseMessageParam",
                                   BaseMessageParam(role, PyList(parts.value))))

----------------------------------------------------------------------------
(* AzureAICallResponseChunk: the accessors over the wrapped chunk *)

\* the `content` property
Azure_content(self) ==
    LET delta == IF self.chunk.choices /= << >>
                 THEN self.chunk.choices[1].delta ELSE PyNone
    IN
    Return(IF delta /= PyNone /\ Truthy(delta.d.content)
           THEN delta.d.content ELSE PyStr(""))

\* the `finish_reasons` property
Azure_finish_reasons(self) ==
    LET reporting == SelectSeq(self.chunk.choices,
                               LAMBDA choice : Truthy(choice.finish_reason))
    IN
    Return(PyList([k \in 1..Len(reporting) |-> reporting[k].finish_reason]))

\* the `usage` property
Azure_usage(self) ==
    IF hasattr(self.chunk, "usage") /\ Truthy(self.chunk.usage)
    THEN Return(self.chunk.usage)
    ELSE Return(PyNone)

\* the `input_tokens` property
Azure_input_tokens(self) ==
    LET usage == Azure_usage(self).value IN
    IF Truthy(usage) THEN Return(usage.d.prompt_tokens) ELSE Return(PyNone)

\* the `output_tokens` property
Azure_output_tokens(self) ==
    LET usage == Azure_usage(self).value IN
    IF Truthy(usage) THEN Return(usage.d.completion_tokens) ELSE Return(PyNone)

----------------------------------------------------------------------------
(* Anthropic provider messages the calls are made with *)

Roles == {"user", "assistant"}
Texts == {"", "hello"}

Man == <<77, 97, 110>>

ImageSource(type, data, media_type) ==
    PyDict([type |-> PyStr(type), data |-> data, media_type |-> media_type])
ImageBlock(source) == PyDict([type |-> "image", source |-> source])

WellFormedImageBlocks ==
    { ImageBlock(ImageSource("base64", data, PyStr("image/png"))) :
        data \in { PyB64Str(b64encode(Man)), PyB64Str(<<19, 22, 4>>),
                   PyBytes(Man), PyPath("img.png"), PyPath("gone.png"),
                   PyFile("f1") } }
UnsupportedImageBlocks ==
    { ImageBlock(ImageSource("base64", data, PyStr("image/bmp"))) :
        data \in { PyB64Str(b64encode(Man)), PyFile("f1") } }
MalformedImageBlocks ==
    { PyDict([type |-> "image"]),
      ImageBlock(PyNone),
      ImageBlock(ImageSource("url", PyB64Str(b64encode(Man)), PyStr("image/png"))),
      ImageBlock(ImageSource("base64", PyNone, PyStr("image/png"))),
      ImageBlock(ImageSource("base64", PyNone, PyStr("image/bmp"))),
      ImageBlock(ImageSource("base64", PyB64Str(<<>>), PyStr("image/png"))),
      ImageBlock(ImageSource("base64", PyFile("f1"), PyNone)),
      ImageBlock(ImageSource("base64", PyB64Str(b64encode(Man)), PyStr(""))) }

SearchArgs == [q |-> "cats"]
ToolUse ==
    [type |-> "tool_use", id |-> PyStr("toolu_1"), name |-> "search",
     input |-> SearchArgs]

TextBlocks ==
    { PyDict([type |-> "text", text |-> PyStr("hi")]),
      PyDict([type |-> "text", text |-> PyNone]) }
ToolUseBlocks == { PyDict(ToolUse) }
OtherBlocks == { PyDict([type |-> "tool_result", tool_use_id |-> "toolu_1"]) }
\* the blocks of a response, which the SDK hands out as objects, not dicts
ObjectBlocks ==
    { PyObject("TextBlock", [type |-> "text", text |-> PyStr("hi")]),
      PyObject("ToolUseBlock", ToolUse) }

Blocks ==
    TextBlocks \cup WellFormedImageBlocks \cup UnsupportedImageBlocks
        \cup MalformedImageBlocks \cup ToolUseBlocks \cup OtherBlocks
        \cup ObjectBlocks

----------------------------------------------------------------------------
(* AnthropicMessageParamConverter.to_provider, which is convert_message_params *)

\* the block of one part, or the ValueError of a part Anthropic cannot express
convert_part(part) ==
    CASE part.type = "text" ->
           Return(PyDict([type |-> "text", text |-> PyStr(part.text)]))
      [] part.type = "image" ->
           IF part.media_type \notin AllowedImageMediaTypes
           THEN Raise("ValueError", "Unsupported image media type", part.media_type)
           ELSE Return(ImageBlock(ImageSource("base64",
                                              PyB64Str(b64encode(part.image)),
                                              PyStr(part.media_type))))
      [] part.type = "tool_call" ->
           Return(PyDict([type |-> "tool_use", id |-> part.id, name |-> part.name,
                          input |-> part.args]))
      [] OTHER ->
           Raise("ValueError", "Anthropic currently only supports text, image and tool parts",
                 part.type)

RECURSIVE convert_parts(_, _, _)
convert_parts(content, k, converted_content) ==
    IF k > Len(content) THEN Return(converted_content)
    ELSE LET block == convert_part(content[k]) IN
         IF block.status = "raise" THEN block
         ELSE convert_parts(content, k + 1, Append(converted_content, block.value))

RECURSIVE convert_message_params(_, _, _)
convert_message_params(message_params, i, converted_message_params) ==
    IF i > Len(message_params) THEN Return(converted_message_params)
    ELSE IF isinstance(message_params[i].content, "str")
    THEN convert_message_params(message_params, i + 1,
             Append(converted_message_params,
                    [role |-> message_params[i].role,
                     content |-> message_params[i].content]))
    ELSE LET blocks == convert_parts(message_params[i].content.l, 1, << >>) IN
         IF blocks.status = "raise" THEN blocks
         ELSE convert_message_params(message_params, i + 1,
                  Append(converted_message_params,
                         [role |-> message_params[i].role,
                          content |-> PyList(blocks.value)]))

Anthropic_to_provider(message_params) ==
    convert_message_params(message_params, 1, << >>)

\* the content items of a message: its blocks, or one for a string
ItemCount(message_param) ==
    IF isinstance(message_param.content, "str") THEN 1
    ELSE Len(message_param.content.l)

RECURSIVE TotalItems(_)
TotalItems(message_params) ==
    IF message_params = <<>> THEN 0
    ELSE ItemCount(Head(message_params)) + TotalItems(Tail(message_params))

----------------------------------------------------------------------------
(* The caller assembles a provider message sequence, then converts it *)

Init ==
    /\ op = "idle"
    /\ arg = <<>>
    /\ res = [out |-> Return(PyNone), at |-> <<>>]
    /\ files = [f \in FileObjs |-> 0]

\* a message with string content, or with an empty content list, is added
AnthropicAddMessage ==
    /\ op \in {"idle", "anthropic_messages"}
    /\ Len(arg) < MaxMsgs
    /\ \E role \in Roles,
          content \in { PyStr(s) : s \in IF TotalItems(arg) < MaxItems THEN Texts ELSE {} }
                          \cup { PyList(<<>>) } :
         arg' = Append(arg, [role |-> role, content |-> content])
    /\ op' = "anthropic_messages"
    /\ UNCHANGED <<res, files>>

\* a block is added to the content list of the last message
AnthropicAddBlock ==
    /\ op = "anthropic_messages"
    /\ isinstance(arg[Len(arg)].content, "list")
    /\ TotalItems(arg) < MaxItems
    /\ \E block \in Blocks :
         arg' = [arg EXCEPT ![Len(arg)].content.l = Append(@, block)]
    /\ UNCHANGED <<op, res, files>>

AnthropicFromProvider ==
    /\ op \in {"idle", "anthropic_messages"}
    /\ LET r == Anthropic_from_provider(arg, files) IN
         /\ res' = [out |-> r.out, at |-> r.at]
         /\ files' = r.files
    /\ op' = "Anthropic.from_provider"
    /\ UNCHANGED arg

\* the caller converts the same sequence a second time; the file objects are
\* where the first call left them, and the first outcome is kept in res
AnthropicFromProviderAgain ==
    /\ op = "Anthropic.from_provider"
    /\ LET r == Anthropic_from_provider(arg, files) IN
         /\ res' = [out |-> r.out, at |-> r.at, first |-> res.out]
         /\ files' = r.files
    /\ op' = "Anthropic.from_provider twice"
    /\ UNCHANGED arg

----------------------------------------------------------------------------
(* The caller assembles a Cohere message sequence, then converts it *)

ToolCalls ==
    { [name |-> "search", parameters |-> SearchArgs],
      [name |-> "calc", parameters |-> [x |-> "1", y |-> "2"]] }

RECURSIVE TotalToolCalls(_)
TotalToolCalls(message_params) ==
    IF message_params = <<>> THEN 0
    ELSE (IF isinstance(Head(message_params).tool_calls, "list")
          THEN Len(Head(message_params).tool_calls.l) ELSE 0)
         + TotalToolCalls(Tail(message_params))

\* a ChatMessage without tool calls is added: tool_calls is None or empty
CohereAddMessage ==
    /\ op \in {"idle", "cohere_messages"}
    /\ Len(arg) < MaxMsgs
    /\ \E message \in Texts, tool_calls \in { PyNone, PyList(<<>>) } :
         arg' = Append(arg, [message |-> PyStr(message), tool_calls |-> tool_calls])
    /\ op' = "cohere_messages"
    /\ UNCHANGED <<res, files>>

\* a tool call is added to the last message
CohereAddToolCall ==
    /\ op = "cohere_messages"
    /\ isinstance(arg[Len(arg)].tool_calls, "list")
    /\ TotalToolCalls(arg) < MaxToolCalls
    /\ \E tool_call \in ToolCalls :
         arg' = [arg EXCEPT ![Len(arg)].tool_calls.l = Append(@, tool_call)]
    /\ UNCHANGED <<op, res, files>>

CohereFromProvider ==
    /\ op \in {"idle", "cohere_messages"}
    /\ res' = [out |-> Cohere_from_provider(arg), at |-> <<>>]
    /\ op' = "Cohere.from_provider"
    /\ UNCHANGED <<arg, files>>

----------------------------------------------------------------------------
(* A ChatCompletion is wrapped in an OpenAICallResponse, then read *)

Refusal == "I can't help with that"

OpenAIToolCalls ==
    { [id |-> "call_1", function |-> [name |-> "search", arguments |-> SearchArgs]],
      [id |-> "call_2", function |-> [name |-> "search", arguments |-> [x |-> "1"]]],
      [id |-> "call_3", function |-> [name |-> "weather", arguments |-> [x |-> "1"]]] }

OpenAIToolTypes ==
    { [cls |-> "Search", name |-> "search", fields |-> {"q"}],
      [cls |-> "LegacySearch", name |-> "search", fields |-> {"x"}],
      [cls |-> "Calc", name |-> "calc", fields |-> {"x", "y"}] }

\* None, or a list of at most n elements of S
OptionalLists(S, n) ==
    { PyNone } \cup { PyList(l) : l \in UNION { [1..k -> S] : k \in 0..n } }

\* the messages of a completion; an old SDK's message has no refusal attribute
OpenAIMessages ==
    { [role |-> "assistant", content |-> content, tool_calls |-> tool_calls] :
        content \in { PyNone, PyStr("hi") },
        tool_calls \in OptionalLists(OpenAIToolCalls, MaxToolCalls) }
    \cup
    { [role |-> "assistant", content |-> content, tool_calls |-> tool_calls,
       refusal |-> refusal] :
        content \in { PyNone, PyStr("hi") },
        tool_calls \in OptionalLists(OpenAIToolCalls, MaxToolCalls),
        refusal \in { PyNone, PyStr(""), PyStr(Refusal) } }

Choice(message, finish_reason) ==
    [message |-> message, finish_reason |-> finish_reason]
ChatCompletion(choices, usage, model) ==
    [choices |-> choices, usage |-> usage, model |-> model]

\* completions that differ in the tool calls and the refusal of their message
ToolCompletions ==
    { ChatCompletion(<< >>, PyNone, "gpt-4o") }
    \cup { ChatCompletion(<< Choice(message, PyStr("stop")) >>, PyNone, "gpt-4o") :
             message \in OpenAIMessages }

CompletionUsages ==
    { PyObject("CompletionUsage",
               [prompt_tokens |-> PyInt(3), completion_tokens |-> PyInt(5)]),
      PyObject("CompletionUsage",
               [prompt_tokens |-> PyInt(0), completion_tokens |-> PyInt(0)]) }

\* a model of the pricing table and one it does not know
Models == {"gpt-4o", "my-fine-tune"}

\* a server that is only compatible with OpenAI may leave finish_reason null
FinishReasons == { PyNone, PyStr("stop"), PyStr("length") }

PlainChoices ==
    { Choice([role |-> "assistant", content |-> content,
              tool_calls |-> PyNone, refusal |-> PyNone], finish_reason) :
        content \in { PyNone, PyStr("hi") }, finish_reason \in FinishReasons }

\* completions that differ in their choices, finish reasons, usage and model
PlainCompletions ==
    { ChatCompletion(choices, usage, model) :
        choices \in UNION { [1..k -> PlainChoices] : k \in 0..MaxChoices },
        usage \in { PyNone } \cup CompletionUsages,
        model \in Models }

\* "data:<media type>;base64,<the base64 text of image>"
DataURL(media_type, image) ==
    << Run("data"), Ch(":") >> \o media_type \o << Ch(";"), Run("base64"), Ch(",") >>
    \o [k \in 1..Len(b64encode(image)) |-> B64Ch(b64encode(image)[k])]

ImageMediaTypes == { << Run("image/png") >>, << Run("image/jpeg") >> }
Images == { Man, <<77>> }

ImageURLBlock(image_url) == [type |-> "image_url", image_url |-> image_url]

\* the typed blocks of a content list: text, images as data URLs with and
\* without detail, an image by its web address, an image whose base64 text
\* lost its padding, audio, a refusal block and a block without type
ContentBlocks ==
    { [type |-> "text", text |-> "hello"] }
    \cup { ImageURLBlock([url |-> DataURL(media_type, image)]) :
             media_type \in ImageMediaTypes, image \in Images }
    \cup { ImageURLBlock([url |-> DataURL(<< Run("image/png") >>, Man),
                          detail |-> detail]) :
             detail \in { PyStr("high"), PyNone } }
    \cup { ImageURLBlock([url |-> << Run("https"), Ch(":"), Run("//example.com/cat.png") >>]),
           ImageURLBlock([url |-> << Run("data"), Ch(":"), Run("image/png"), Ch(";"),
                                     Run("base64"), Ch(","),
                                     B64Ch(19), B64Ch(22), B64Ch(4) >>]),
           [type |-> "input_audio",
            input_audio |-> [data |-> PyB64Str(b64encode(Man)),
                             format |-> << Run("wav") >>]],
           [type |-> "refusal", refusal |-> Refusal],
           [text |-> "hello"] }

\* an audio answer of the model
Audio == PyObject("ChatCompletionAudio", [id |-> "audio_1", transcript |-> "hello"])

\* messages that differ in their role, in the blocks of their content and in
\* the audio and function_call that message_param leaves out
BlockMessages ==
    { [role |-> role, content |-> PyList(content),
       tool_calls |-> PyNone, refusal |-> PyNone] :
        role \in Roles,
        content \in UNION { [1..k -> ContentBlocks] : k \in 0..MaxItems } }
    \cup
    { [role |-> role, content |-> content, tool_calls |-> PyNone, refusal |-> PyNone,
       function_call |-> PyNone, audio |-> audio] :
        role \in Roles,
        content \in { PyNone, PyStr("hi"), PyList(<< [type |-> "text", text |-> "hello"] >>) },
        audio \in { PyNone, Audio } }

BlockCompletions ==
    { ChatCompletion(<< Choice(message, PyStr("stop")) >>, PyNone, "gpt-4o") :
        message \in BlockMessages }

ChatCompletions == ToolCompletions \cup PlainCompletions \cup BlockCompletions

OpenAIWrap ==
    /\ op = "idle"
    /\ arg = << >>
    /\ \E response \in ChatCompletions,
          tool_types \in OptionalLists(OpenAIToolTypes, MaxToolTypes) :
         /\ response \in ToolCompletions \/ tool_types = PyNone
         /\ arg' = [response |-> response, tool_types |-> tool_types]
    /\ op' = "openai_response"
    /\ UNCHANGED <<res, files>>

OpenAITools ==
    /\ op = "openai_response"
    /\ res' = [out |-> OpenAI_tools(arg), at |-> << >>]
    /\ op' = "OpenAI.tools"
    /\ UNCHANGED <<arg, files>>

OpenAITool ==
    /\ op = "openai_response"
    /\ res' = [out |-> OpenAI_tool(arg), at |-> << >>]
    /\ op' = "OpenAI.tool"
    /\ UNCHANGED <<arg, files>>

OpenAIContent ==
    /\ op = "openai_response"
    /\ res' = [out |-> OpenAI_content(arg), at |-> << >>]
    /\ op' = "OpenAI.content"
    /\ UNCHANGED <<arg, files>>

OpenAIFinishReasons ==
    /\ op = "openai_response"
    /\ res' = [out |-> OpenAI_finish_reasons(arg), at |-> << >>]
    /\ op' = "OpenAI.finish_reasons"
    /\ UNCHANGED <<arg, files>>

OpenAIUsage ==
    /\ op = "openai_response"
    /\ res' = [out |-> OpenAI_usage(arg), at |-> << >>]
    /\ op' = "OpenAI.usage"
    /\ UNCHANGED <<arg, files>>

OpenAIInputTokens ==
    /\ op = "openai_response"
    /\ res' = [out |-> OpenAI_input_tokens(arg), at |-> << >>]
    /\ op' = "OpenAI.input_tokens"
    /\ UNCHANGED <<arg, files>>

OpenAIOutputTokens ==
    /\ op = "openai_response"
    /\ res' = [out |-> OpenAI_output_tokens(arg), at |-> << >>]
    /\ op' = "OpenAI.output_tokens"
    /\ UNCHANGED <<arg, files>>

OpenAICost ==
    /\ op = "openai_response"
    /\ res' = [out |-> OpenAI_cost(arg), at |-> << >>]
    /\ op' = "OpenAI.cost"
    /\ UNCHANGED <<arg, files>>

OpenAIMessageParam ==
    /\ op = "openai_response"
    /\ res' = [out |-> OpenAI_message_param(arg), at |-> << >>]
    /\ op' = "OpenAI.message_param"
    /\ UNCHANGED <<arg, files>>

OpenAICommonMessageParam ==
    /\ op = "openai_response"
    /\ res' = [out |-> OpenAI_common_message_param(arg), at |-> << >>]
    /\ op' = "OpenAI.common_message_param"
    /\ UNCHANGED <<arg, files>>

----------------------------------------------------------------------------
(* A streamed chunk is wrapped in an AzureAICallResponseChunk, then read *)

AzureDeltas ==
    { PyNone }
    \cup { PyObject("StreamingChatResponseMessageUpdate", [content |-> content]) :
             content \in { PyNone, PyStr(""), PyStr("hi") } }

AzureChoices ==
    { [delta |-> delta, finish_reason |-> finish_reason] :
        delta \in AzureDeltas, finish_reason \in { PyNone, PyStr("stop") } }

\* the usage of a chunk: None, an empty CompletionsUsage or a filled one
AzureUsages ==
    { PyNone, PyDict(<< >>),
      PyDict([prompt_tokens |-> PyInt(3), completion_tokens |-> PyInt(5)]) }

\* the chunks; some have no usage attribute at all
AzureChunks ==
    { [choices |-> choices] :
        choices \in UNION { [1..k -> AzureChoices] : k \in 0..MaxChoices } }
    \cup
    { [choices |-> choices, usage |-> usage] :
        choices \in UNION { [1..k -> AzureChoices] : k \in 0..MaxChoices },
        usage \in AzureUsages }

AzureWrap ==
    /\ op = "idle"
    /\ arg = << >>
    /\ \E chunk \in AzureChunks : arg' = [chunk |-> chunk]
    /\ op' = "azure_chunk"
    /\ UNCHANGED <<res, files>>

AzureContent ==
    /\ op = "azure_chunk"
    /\ res' = [out |-> Azure_content(arg), at |-> << >>]
    /\ op' = "AzureAI.content"
    /\ UNCHANGED <<arg, files>>

AzureFinishReasons ==
    /\ op = "azure_chunk"
    /\ res' = [out |-> Azure_finish_reasons(arg), at |-> << >>]
    /\ op' = "AzureAI.finish_reasons"
    /\ UNCHANGED <<arg, files>>

AzureUsage ==
    /\ op = "azure_chunk"
    /\ res' = [out |-> Azure_usage(arg), at |-> << >>]
    /\ op' = "AzureAI.usage"
    /\ UNCHANGED <<arg, files>>

AzureInputTokens ==
    /\ op = "azure_chunk"
    /\ res' = [out |-> Azure_input_tokens(arg), at |-> << >>]
    /\ op' = "AzureAI.input_tokens"
    /\ UNCHANGED <<arg, files>>

AzureOutputTokens ==
    /\ op = "azure_chunk"
    /\ res' = [out |-> Azure_output_tokens(arg), at |-> << >>]
    /\ op' = "AzureAI.output_tokens"
    /\ UNCHANGED <<arg, files>>

----------------------------------------------------------------------------
(* A common message is converted to Anthropic's format and back *)

CommonRoles == {"system", "user", "assistant", "tool"}

CommonParts ==
    { TextPart(text) : text \in Texts }
    \cup { ImagePart(media_type, image, detail) :
             media_type \in {"image/png", "image/jpeg"},
             image \in { Man, <<77>> },
             detail \in { PyNone, PyStr("auto") } }
    \cup { ImagePart("image/bmp", Man, PyNone),
           ToolCallPart("search", SearchArgs, PyStr("toolu_1")),
           AudioPart("audio/wav", Man) }

CommonMessages ==
    { BaseMessageParam(role, content) :
        role \in CommonRoles,
        content \in { PyStr(s) : s \in Texts }
            \cup { PyList(l) : l \in UNION { [1..k -> CommonParts] : k \in 0..MaxItems } } }

AnthropicRoundTrip ==
    /\ op = "idle"
    /\ arg = << >>
    /\ \E m \in CommonMessages :
         LET provider_messages == Anthropic_to_provider(<< m >>) IN
         /\ arg' = << m >>
         /\ IF provider_messages.status = "raise"
            THEN /\ res' = [out |-> provider_messages, at |-> << >>]
                 /\ files' = files
            ELSE LET r == Anthropic_from_provider(provider_messages.value, files) IN
                 /\ res' = [out |-> r.out, at |-> r.at]
                 /\ files' = r.files
    /\ op' = "Anthropic.round_trip"

----------------------------------------------------------------------------

Next ==
    \/ AnthropicAddMessage
    \/ AnthropicAddBlock
    \/ AnthropicFromProvider
    \/ AnthropicFromProviderAgain
    \/ CohereAddMessage
    \/ CohereAddToolCall
    \/ CohereFromProvider
    \/ AnthropicRoundTrip
    \/ OpenAIWrap
    \/ OpenAITools
    \/ OpenAITool
    \/ OpenAIContent
    \/ OpenAIFinishReasons
    \/ OpenAIUsage
    \/ OpenAIInputTokens
    \/ OpenAIOutputTokens
    \/ OpenAICost
    \/ OpenAIMessageParam
    \/ OpenAICommonMessageParam
    \/ AzureWrap
    \/ AzureContent
    \/ AzureFinishReasons
    \/ AzureUsage
    \/ AzureInputTokens
    \/ AzureOutputTokens

Spec == Init /\ [][Next]_vars

----------------------------------------------------------------------------
(* What the claims speak about *)

AnthropicCalled == op = "Anthropic.from_provider"
CohereCalled == op = "Cohere.from_provider"
Returned == res.out.status = "return"
Raised == res.out.status = "raise"

\* the messages of a returned value: those of a list, or the one returned bare
ResultMessages ==
    IF isinstance(res.out.value, "list") THEN res.out.value.l
    ELSE IF isinstance(res.out.value, "BaseMessageParam") THEN << res.out.value.d >>
    ELSE << >>

\* the blocks of message i of the argument (none for a string content)
BlocksOf(i) ==
    IF isinstance(arg[i].content, "list") THEN arg[i].content.l ELSE << >>

\* position at of the loops is block j of message i or comes before it
NotAfter(at, i, j) ==
    /\ at /= << >>
    /\ at[1] < i \/ (at[1] = i /\ at[2] <= j)

IsImageDict(b) == isinstance(b, "dict") /\ b.d.type = "image"
HasBase64Source(b) ==
    /\ "source" \in DOMAIN b.d
    /\ isinstance(b.d.source, "dict")
    /\ "type" \in DOMAIN b.d.source.d
    /\ b.d.source.d.type = PyStr("base64")
HasData(b) ==
    /\ "data" \in DOMAIN b.d.source.d
    /\ b.d.source.d.data \notin { PyNone, PyB64Str(<<>>), PyBytes(<<>>) }
HasMediaType(b) ==
    /\ "media_type" \in DOMAIN b.d.source.d
    /\ b.d.source.d.media_type \notin { PyNone, PyStr("") }

\* an image block that is complete but of a media type outside the allow-list
UnsupportedImage(b) ==
    /\ IsImageDict(b) /\ HasBase64Source(b) /\ HasData(b) /\ HasMediaType(b)
    /\ b.d.source.d.media_type.s
           \notin {"image/jpeg", "image/png", "image/gif", "image/webp"}

\* an image block that lacks its source, the base64 source type, data or media type
MalformedImage(b) ==
    /\ IsImageDict(b)
    /\ ~HasBase64Source(b) \/ ~HasData(b) \/ ~HasMediaType(b)

\* a complete image block of an allowed media type whose data is a file object
FileImage(b) ==
    /\ IsImageDict(b) /\ HasBase64Source(b) /\ HasData(b) /\ HasMediaType(b)
    /\ b.d.source.d.media_type.s \in {"image/jpeg", "image/png", "image/gif", "image/webp"}
    /\ isinstance(b.d.source.d.data, "BufferedReader")

----------------------------------------------------------------------------
\* a common message Anthropic can express with one part in isolation: string
\* content, or one text, image or tool-call part
Expressible(m) ==
    \/ isinstance(m.content, "str")
    \/ /\ Len(m.content.l) = 1
       /\ \/ m.content.l[1].type \in {"text", "tool_call"}
          \/ /\ m.content.l[1].type = "image"
             /\ m.content.l[1].media_type \in AllowedImageMediaTypes

(* C1: for every common message m that Anthropic can express (string       *)
(* content, or a single text, image or tool-call part; any role),          *)
(* from_provider(to_provider([m])) is [m], role included.                  *)
C1_RoundTrip ==
    (op = "Anthropic.round_trip" /\ Expressible(arg[1])) =>
        res.out = Return(PyList(<< arg[1] >>))

----------------------------------------------------------------------------
(* C2: for every Anthropic provider message whose content is a bare string *)
(* s, from_provider yields exactly one common message, at that message's   *)
(* place in the result, whose content is the string s itself (not a part   *)
(* list) and whose role is "assistant"; a sequence of such messages alone  *)
(* never raises.                                                           *)
C2_BareStringContent ==
    AnthropicCalled =>
        /\ (\A i \in 1..Len(arg) : isinstance(arg[i].content, "str")) => Returned
        /\ Returned =>
             /\ isinstance(res.out.value, "list")
             /\ Len(res.out.value.l) = Len(arg)
             /\ \A i \in 1..Len(arg) :
                  isinstance(arg[i].content, "str") =>
                      res.out.value.l[i] =
                          [role |-> "assistant", content |-> PyStr(arg[i].content.s)]

\* a user message with string content was converted next to a message with parts
C2_Witness ==
    /\ AnthropicCalled /\ Returned
    /\ Len(arg) = 2
    /\ arg[1].role = "user" /\ arg[1].content = PyStr("hello")
    /\ isinstance(arg[2].content, "list") /\ Len(arg[2].content.l) = 1
    /\ res.out.value.l[1] = [role |-> "assistant", content |-> PyStr("hello")]

(* C3: an image block with a base64 source, data and a media type outside  *)
(* the allow-list makes the call raise: the call never returns a result,   *)
(* the loops never get past the block, and when the loops reach it the     *)
(* error is the unsupported-media-type ValueError naming the media type.   *)
C3_UnsupportedMediaTypeRaises ==
    AnthropicCalled =>
        \A i \in 1..Len(arg) : \A j \in 1..Len(BlocksOf(i)) :
            UnsupportedImage(BlocksOf(i)[j]) =>
                /\ Raised
                /\ NotAfter(res.at, i, j)
                /\ res.at = <<i, j>> =>
                       res.out = Raise("ValueError", "Unsupported image media type",
                                       BlocksOf(i)[j].d.source.d.media_type.s)

\* an image/bmp block was reached after a converted message and raised
C3_Witness ==
    /\ AnthropicCalled /\ Raised
    /\ res.at = <<2, 1>>
    /\ UnsupportedImage(BlocksOf(2)[1])
    /\ res.out.detail = "image/bmp"

(* C4: a malformed image block (source absent, source type not "base64",   *)
(* data absent or empty, media type absent or empty) makes the call raise  *)
(* at that block: the loops never get past it, the error is the ValueError *)
(* of the failed check and never the allow-list's, and no file object of a *)
(* later block has been read.                                              *)
C4_MalformedImageRaisesAtBlock ==
    AnthropicCalled =>
        \A i \in 1..Len(arg) : \A j \in 1..Len(BlocksOf(i)) :
            MalformedImage(BlocksOf(i)[j]) =>
                /\ Raised
                /\ NotAfter(res.at, i, j)
                /\ res.at = <<i, j>> =>
                     /\ res.out =
                            IF ~HasBase64Source(BlocksOf(i)[j])
                            THEN Raise("ValueError",
                                     "ImageBlockParam must have a 'source' with type='base64'.",
                                     "")
                            ELSE Raise("ValueError",
                                     "ImageBlockParam source must have 'data' and 'media_type'.",
                                     "")
                     /\ \A f \in FileObjs :
                            files[f] /= 0 =>
                                \E i2 \in 1..i : \E j2 \in 1..Len(BlocksOf(i2)) :
                                    /\ i2 < i \/ j2 < j
                                    /\ FileImage(BlocksOf(i2)[j2])

\* a block without data and of media type image/bmp raised before the file
\* object of the next block was read
C4_Witness ==
    /\ AnthropicCalled /\ Raised
    /\ res.at = <<1, 1>>
    /\ Len(BlocksOf(1)) = 2
    /\ BlocksOf(1)[1] = ImageBlock(ImageSource("base64", PyNone, PyStr("image/bmp")))
    /\ FileImage(BlocksOf(1)[2])
    /\ files["f1"] = 0

(* C6: a Cohere message without tool calls (tool_calls empty or absent)    *)
(* and with free text t, converted as a one-element sequence, gives a      *)
(* sequence of one message with role "assistant" and the string t as       *)
(* content.                                                                *)
C6_CohereTextMessageInList ==
    (CohereCalled /\ Len(arg) = 1 /\ arg[1].tool_calls \in { PyNone, PyList(<<>>) }) =>
        res.out = Return(PyList(<< [role |-> "assistant",
                                    content |-> PyStr(arg[1].message.s)] >>))

\* the parts the claim expects for a Cohere message with tool calls
IsToolMessageOf(m, message_param) ==
    LET tool_calls == message_param.tool_calls.l
        text == IF message_param.message.s /= ""
                THEN << [type |-> "text", text |-> message_param.message.s] >>
                ELSE << >>
    IN
    /\ m.role = "tool"
    /\ isinstance(m.content, "list")
    /\ Len(m.content.l) = Len(text) + Len(tool_calls)
    /\ SubSeq(m.content.l, 1, Len(text)) = text
    /\ \A k \in 1..Len(tool_calls) :
         /\ m.content.l[Len(text) + k].type = "tool_call"
         /\ m.content.l[Len(text) + k].name = tool_calls[k].name
         /\ m.content.l[Len(text) + k].args = tool_calls[k].parameters

HasToolCalls(message_param) ==
    isinstance(message_param.tool_calls, "list") /\ message_param.tool_calls.l /= << >>

(* C7: for a Cohere message with a non-empty list of tool calls,           *)
(* from_provider emits exactly one message, at that message's place, with  *)
(* role "tool" and as content a text part for the free text iff it is not  *)
(* empty, then one tool-call part per tool call, in order, with its name   *)
(* and arguments.                                                          *)
C7_CohereToolCallMessage ==
    CohereCalled =>
        /\ Returned
        /\ \A i \in 1..Len(arg) :
             HasToolCalls(arg[i]) =>
                 /\ Len(ResultMessages) = Len(arg)
                 /\ IsToolMessageOf(ResultMessages[i], arg[i])

(* C8: from_provider of either converter raises or returns exactly one     *)
(* common message per input message, in input order: a message with        *)
(* string content (Anthropic) or without tool calls (Cohere) gives a       *)
(* message with string content, any other a message with a part list.      *)
C8_AllOrNothing ==
    ((AnthropicCalled \/ CohereCalled) /\ Returned) =>
        /\ Len(ResultMessages) = Len(arg)
        /\ \A i \in 1..Len(arg) :
             isinstance(ResultMessages[i].content, "str")
                 <=> IF AnthropicCalled THEN isinstance(arg[i].content, "str")
                     ELSE ~HasToolCalls(arg[i])

\* a block whose type is text, image or tool_use
Recognised(b) == b.d.type \in {"text", "image", "tool_use"}

(* C9: in the Anthropic from_provider every element of a content list that *)
(* is no text, image or tool_use block makes the call raise, and no        *)
(* element is skipped: when the call returns, the message for a content    *)
(* list has as many parts as the list has elements.                        *)
C9_NoBlockSkipped ==
    AnthropicCalled =>
        /\ \A i \in 1..Len(arg) : \A j \in 1..Len(BlocksOf(i)) :
             ~Recognised(BlocksOf(i)[j]) => Raised
        /\ Returned =>
             \A i \in 1..Len(arg) :
                 isinstance(arg[i].content, "list") =>
                     Len(ResultMessages[i].content.l) = Len(arg[i].content.l)

IsToolCallPart(part) == part.type = "tool_call"
IsToolUse(b) == b.d.type = "tool_use"
ToolCallPartsOf(m) ==
    IF isinstance(m.content, "list") THEN SelectSeq(m.content.l, IsToolCallPart)
    ELSE << >>

(* C10: every message returned by from_provider of either converter has    *)
(* role "tool" iff its content has a tool-call part and role "assistant"   *)
(* otherwise; for Anthropic, the tool-call parts of a message are those of *)
(* the tool_use blocks of its input, one each, in order, with the block's  *)
(* id, name and input.                                                     *)
C10_RoleDerivedFromContent ==
    ((AnthropicCalled \/ CohereCalled) /\ Returned) =>
        /\ \A k \in 1..Len(ResultMessages) :
             /\ ResultMessages[k].role \in {"tool", "assistant"}
             /\ ResultMessages[k].role = "tool" <=> ToolCallPartsOf(ResultMessages[k]) /= << >>
        /\ AnthropicCalled =>
             \A i \in 1..Len(arg) :
                 LET tool_uses == SelectSeq(BlocksOf(i), IsToolUse) IN
                 ToolCallPartsOf(ResultMessages[i]) =
                     [k \in 1..Len(tool_uses) |->
                        [type |-> "tool_call", name |-> tool_uses[k].d.name,
                         args |-> tool_uses[k].d.input, id |-> tool_uses[k].d.id]]

OpenAIAccessed == op \in {"OpenAI.tools", "OpenAI.tool"}

\* the first choice's message of the wrapped completion
FirstMessage == arg.response.choices[1].message

HasRefusal ==
    /\ "refusal" \in DOMAIN FirstMessage
    /\ FirstMessage.refusal \notin { PyNone, PyStr("") }

(* C5: when the first choice's message of an OpenAICallResponse has a      *)
(* non-empty refusal, `tools` and `tool` raise a ValueError whose payload  *)
(* is the refusal text, whatever the tool calls and the registered tool    *)
(* types; when the refusal is absent, None or empty, neither raises a      *)
(* ValueError.                                                             *)
C5_RefusalRaises ==
    (OpenAIAccessed /\ arg.response.choices /= << >>) =>
        IF HasRefusal
        THEN res.out = Raise("ValueError", FirstMessage.refusal.s, "")
        ELSE ~(Raised /\ res.out.exc = "ValueError")

\* `tool` raised the refusal although a tool call matches a registered type
C5_Witness ==
    /\ op = "OpenAI.tool"
    /\ arg.response.choices /= << >>
    /\ HasRefusal
    /\ isinstance(arg.tool_types, "list") /\ isinstance(FirstMessage.tool_calls, "list")
    /\ \E k \in 1..Len(FirstMessage.tool_calls.l) :
           matching_tool_types(FirstMessage.tool_calls.l[k], arg.tool_types.l) /= {}
    /\ res.out = Raise("ValueError", Refusal, "")

----------------------------------------------------------------------------
\* a complete image block of an allowed media type
WellFormedImage(b) ==
    /\ IsImageDict(b) /\ HasBase64Source(b) /\ HasData(b) /\ HasMediaType(b)
    /\ b.d.source.d.media_type.s \in {"image/jpeg", "image/png", "image/gif", "image/webp"}

\* the payload of a well-formed image block is one of the three shapes and
\* names something that exists: bytes, text that is the base64 encoding of
\* some bytes, a file object, or the path of a file on disk
PayloadAvailable(data) ==
    \/ isinstance(data, "bytes")
    \/ isinstance(data, "str") /\ b64decode(data.c).status = "return"
    \/ isinstance(data, "BufferedReader")
    \/ isinstance(data, "PathLike") /\ DiskHas(data.p)

\* the raw bytes such a payload stands for, the file objects being unread
PayloadBytes(data) ==
    CASE isinstance(data, "bytes") -> data.b
      [] isinstance(data, "str") -> b64decode(data.c).value
      [] isinstance(data, "BufferedReader") -> FileContent(data.f)
      [] isinstance(data, "PathLike") -> DiskContent(data.p)

(* C11: when the first block of the first message given to Anthropic's     *)
(* from_provider is a well-formed image block (base64 source, allowed      *)
(* media type) whose data is embedded bytes, a base64 string, a file       *)
(* object or the path of an existing file, the conversion does not raise   *)
(* at that block, and when it returns, the first part of the first message *)
(* is an image part of the block's media type holding the payload's raw    *)
(* bytes.                                                                  *)
C11_ImagePayloadShapes ==
    (/\ AnthropicCalled
     /\ arg /= << >> /\ BlocksOf(1) /= << >>
     /\ WellFormedImage(BlocksOf(1)[1])
     /\ PayloadAvailable(BlocksOf(1)[1].d.source.d.data)) =>
        LET source == BlocksOf(1)[1].d.source.d IN
        /\ ~(Raised /\ res.at = <<1, 1>>)
        /\ Returned =>
               ResultMessages[1].content.l[1] =
                   ImagePart(source.media_type.s, PayloadBytes(source.data), PyNone)

\* the same statement without the embedded-bytes shape
C11_StringFileAndPathShapes ==
    (/\ AnthropicCalled
     /\ arg /= << >> /\ BlocksOf(1) /= << >>
     /\ WellFormedImage(BlocksOf(1)[1])
     /\ PayloadAvailable(BlocksOf(1)[1].d.source.d.data)
     /\ ~isinstance(BlocksOf(1)[1].d.source.d.data, "bytes")) =>
        LET source == BlocksOf(1)[1].d.source.d IN
        /\ ~(Raised /\ res.at = <<1, 1>>)
        /\ Returned =>
               ResultMessages[1].content.l[1] =
                   ImagePart(source.media_type.s, PayloadBytes(source.data), PyNone)

----------------------------------------------------------------------------
\* the text of the first choice of the wrapped completion or chunk, "" when
\* there is no first choice or it carries no text
FirstChoiceText ==
    IF op = "OpenAI.content"
    THEN IF arg.response.choices /= << >>
            /\ arg.response.choices[1].message.content /= PyNone
         THEN arg.response.choices[1].message.content
         ELSE PyStr("")
    ELSE IF /\ arg.chunk.choices /= << >>
            /\ arg.chunk.choices[1].delta /= PyNone
            /\ arg.chunk.choices[1].delta.d.content \notin { PyNone, PyStr("") }
         THEN arg.chunk.choices[1].delta.d.content
         ELSE PyStr("")

(* C12: `content` of an OpenAICallResponse and of an AzureAICallResponse-   *)
(* Chunk never raises and returns the first choice's text when there is    *)
(* one, and "" when the content is null, the delta is absent or empty, or  *)
(* there is no choice at all.                                              *)
C12_ContentNeverRaises ==
    op \in {"OpenAI.content", "AzureAI.content"} =>
        res.out = Return(FirstChoiceText)

\* the same statement for the chunk alone, and for a completion that has a
\* first choice
C12_ContentWithAFirstChoice ==
    (\/ op = "AzureAI.content"
     \/ op = "OpenAI.content" /\ arg.response.choices /= << >>) =>
        res.out = Return(FirstChoiceText)

----------------------------------------------------------------------------
\* the choices of the wrapped completion or chunk
ChoicesRead ==
    IF op = "OpenAI.finish_reasons" THEN arg.response.choices ELSE arg.chunk.choices

ReportsFinishReason(choice) == choice.finish_reason /= PyNone

\* the finish reasons of the choices that report one, in choice order
ReportedFinishReasons ==
    LET reporting == SelectSeq(ChoicesRead, ReportsFinishReason) IN
    [k \in 1..Len(reporting) |-> reporting[k].finish_reason]

(* C13: `finish_reasons` of an OpenAICallResponse and of an AzureAICall-    *)
(* ResponseChunk returns the finish reasons of the choices that report     *)
(* one, in choice order, and nothing for a choice whose finish reason is   *)
(* null: as many entries as choices reporting a finish reason.             *)
C13_FinishReasonsOfReportingChoices ==
    op \in {"OpenAI.finish_reasons", "AzureAI.finish_reasons"} =>
        res.out = Return(PyList(ReportedFinishReasons))

\* the same statement for the chunk alone, and for a completion all of whose
\* choices report a finish reason
C13_FinishReasonsWhenAllReport ==
    (\/ op = "AzureAI.finish_reasons"
     \/ /\ op = "OpenAI.finish_reasons"
        /\ \A k \in 1..Len(ChoicesRead) : ReportsFinishReason(ChoicesRead[k])) =>
        res.out = Return(PyList(ReportedFinishReasons))

----------------------------------------------------------------------------
\* the wrapped completion carries no usage
OpenAIWithoutUsage == arg.response.usage = PyNone

\* the wrapped chunk has no usage attribute, or a null or empty one
AzureWithoutUsage ==
    \/ "usage" \notin DOMAIN arg.chunk
    \/ arg.chunk.usage \in { PyNone, PyDict(<< >>) }

(* C14: when the wrapped completion carries no usage, `usage`,              *)
(* `input_tokens`, `output_tokens` and `cost` of an OpenAICallResponse     *)
(* return None (never 0), whatever the model name; when the wrapped chunk  *)
(* has no usage attribute or a null or empty one, `usage`, `input_tokens`  *)
(* and `output_tokens` of an AzureAICallResponseChunk return None.         *)
C14_AbsentUsageIsNone ==
    /\ (/\ op \in {"OpenAI.usage", "OpenAI.input_tokens",
                   "OpenAI.output_tokens", "OpenAI.cost"}
        /\ OpenAIWithoutUsage) => res.out = Return(PyNone)
    /\ (/\ op \in {"AzureAI.usage", "AzureAI.input_tokens", "AzureAI.output_tokens"}
        /\ AzureWithoutUsage) => res.out = Return(PyNone)

\* cost of a completion of a priced model without usage returned None
C14_Witness ==
    /\ op = "OpenAI.cost"
    /\ OpenAIWithoutUsage
    /\ arg.response.model \in PricedModels
    /\ arg.response.choices /= << >>
    /\ res.out = Return(PyNone)

\* the accessors do report what a usage carries, zero included
C14_PresentUsageIsReported ==
    /\ (op = "OpenAI.input_tokens" /\ ~OpenAIWithoutUsage) =>
           res.out = Return(arg.response.usage.d.prompt_tokens)
    /\ (op = "AzureAI.output_tokens" /\ ~AzureWithoutUsage) =>
           res.out = Return(arg.chunk.usage.d.completion_tokens)
    /\ (op = "OpenAI.cost" /\ ~OpenAIWithoutUsage) =>
           (res.out = Return(PyNone) <=> arg.response.model \notin PricedModels)

----------------------------------------------------------------------------
\* the tool-call entries and the registered tool types of the wrapped response
ToolCallEntries ==
    IF isinstance(FirstMessage.tool_calls, "list") THEN FirstMessage.tool_calls.l ELSE << >>
RegisteredToolTypes ==
    IF isinstance(arg.tool_types, "list") THEN arg.tool_types.l ELSE << >>

IsRegisteredName(tool_call) ==
    \E n \in 1..Len(RegisteredToolTypes) :
        RegisteredToolTypes[n].name = tool_call.function.name

\* the first registered tool type of the tool call's function name
FirstRegisteredType(tool_call) ==
    RegisteredToolTypes[
        CHOOSE n \in 1..Len(RegisteredToolTypes) :
            /\ RegisteredToolTypes[n].name = tool_call.function.name
            /\ \A o \in 1..(n - 1) :
                   RegisteredToolTypes[o].name /= tool_call.function.name]

\* one construction per tool-call entry of a registered name, in entry order
Constructions ==
    LET matched == SelectSeq(ToolCallEntries, IsRegisteredName) IN
    [k \in 1..Len(matched) |-> from_tool_call(FirstRegisteredType(matched[k]), matched[k])]

AllConstructed == \A k \in 1..Len(Constructions) : Constructions[k].status = "return"

\* the list the claim describes
MatchedTools == [k \in 1..Len(Constructions) |-> Constructions[k].value]

C15_ToolOfEmptyList ==
    /\ op = "OpenAI.tool"
    /\ arg.response.choices /= << >> /\ ~HasRefusal
    /\ ToolCallEntries /= << >> /\ RegisteredToolTypes /= << >>
    /\ MatchedTools = << >>
    /\ res.out = Return(PyNone)

----------------------------------------------------------------------------
\* the declared type of a block of the content, "None" when it declares none
DeclaredType(block) == IF "type" \in DOMAIN block THEN block.type ELSE "None"

\* an image_url block whose URL is the data URL of some image
IsDataURLImage(block) ==
    /\ DeclaredType(block) = "image_url"
    /\ \E media_type \in ImageMediaTypes, image \in Images :
           block.image_url.url = DataURL(media_type, image)

\* an input_audio block whose data is the base64 text of some audio
IsEncodedAudio(block) ==
    /\ DeclaredType(block) = "input_audio"
    /\ \E audio \in Images : block.input_audio.data = PyB64Str(b64encode(audio))

\* a block the claim gives a part for
Convertible(block) ==
    DeclaredType(block) = "text" \/ IsDataURLImage(block) \/ IsEncodedAudio(block)

\* a block of a declared type other than text, image_url and input_audio
OfOtherType(block) ==
    /\ "type" \in DOMAIN block
    /\ block.type \notin {"text", "image_url", "input_audio"}

\* the part the claim gives for a convertible block
ClaimedPart(block) ==
    CASE DeclaredType(block) = "text" -> TextPart(block.text)
      [] DeclaredType(block) = "image_url" ->
           LET header == CHOOSE h \in ImageMediaTypes \X Images :
                             block.image_url.url = DataURL(h[1], h[2])
           IN ImagePart(header[1], header[2],
                        IF "detail" \in DOMAIN block.image_url
                        THEN block.image_url.detail ELSE PyStr("auto"))
      [] DeclaredType(block) = "input_audio" ->
           AudioPart(<< Run("audio/") >> \o block.input_audio.format,
                     CHOOSE audio \in Images :
                         block.input_audio.data = PyB64Str(b64encode(audio)))

CommonMessage(role, content) == Return(PyObject("BaseMessageParam", BaseMessageParam(role, content)))

(* C16: common_message_param of an OpenAICallResponse gives, with the role *)
(* of the first choice's message: for string content, a common message    *)
(* with that string; for null content, one with the empty string; for a    *)
(* list of blocks that are text, data-URL images or base64 audio, a part   *)
(* list with one part per block in order: a text part, an image part of    *)
(* the data URL's media type, its decoded bytes and the given detail or    *)
(* "auto", an audio part of media type audio/<format>.  A block of any     *)
(* other declared type makes it raise, with that type in a ValueError      *)
(* when no earlier block fails.                                            *)
C16_CommonMessageParamByContent ==
    (op = "OpenAI.common_message_param" /\ arg.response.choices /= << >>) =>
        LET role == FirstMessage.role
            content == FirstMessage.content
        IN
        IF isinstance(content, "str") THEN res.out = CommonMessage(role, content)
        ELSE IF content = PyNone THEN res.out = CommonMessage(role, PyStr(""))
        ELSE LET blocks == content.l
                 failing == { k \in 1..Len(blocks) : ~Convertible(blocks[k]) }
             IN
             /\ failing = {} =>
                    res.out = CommonMessage(role,
                                  PyList([k \in 1..Len(blocks) |-> ClaimedPart(blocks[k])]))
             /\ (\E k \in 1..Len(blocks) : OfOtherType(blocks[k])) => Raised
             /\ \A k \in failing :
                    (OfOtherType(blocks[k]) /\ \A o \in failing : k <= o) =>
                        res.out = Raise("ValueError", "Unsupported part type",
                                        blocks[k].type)

\* an image without detail and an audio block became an image part of detail
\* "auto" and an audio part, under the role of the message
C16_Witness ==
    /\ op = "OpenAI.common_message_param"
    /\ arg.response.choices /= << >>
    /\ FirstMessage.role = "user"
    /\ isinstance(FirstMessage.content, "list")
    /\ Len(FirstMessage.content.l) = 2
    /\ FirstMessage.content.l[1] =
           ImageURLBlock([url |-> DataURL(<< Run("image/jpeg") >>, Man)])
    /\ DeclaredType(FirstMessage.content.l[2]) = "input_audio"
    /\ res.out = CommonMessage("user",
                     PyList(<< ImagePart(<< Run("image/jpeg") >>, Man, PyStr("auto")),
                               AudioPart(<< Run("audio/"), Run("wav") >>, Man) >>))

\* a refusal block after a text block raised
C16_OtherTypeRaised ==
    /\ op = "OpenAI.common_message_param"
    /\ arg.response.choices /= << >>
    /\ isinstance(FirstMessage.content, "list")
    /\ Len(FirstMessage.content.l) = 2
    /\ DeclaredType(FirstMessage.content.l[1]) = "text"
    /\ FirstMessage.content.l[2] = [type |-> "refusal", refusal |-> Refusal]
    /\ res.out = Raise("ValueError", "Unsupported part type", "refusal")

\* message_param is the first message without function_call and with the id
\* alone of its audio
C16_MessageParamView ==
    (op = "OpenAI.message_param" /\ arg.response.choices /= << >>) =>
        /\ Returned
        /\ "function_call" \notin DOMAIN res.out.value
        /\ res.out.value.role = FirstMessage.role
        /\ res.out.value.content = FirstMessage.content
        /\ "audio" \in DOMAIN res.out.value =>
               res.out.value.audio = [id |-> FirstMessage.audio.d.id]

----------------------------------------------------------------------------
\* no file object has been read
FilesUnread == \A f \in FileObjs : files[f] = 0

\* block j of message i is an image block whose data is a file object
\* (the file objects are unread before the first call)
HasFileImage == \E i \in 1..Len(arg) : \E j \in 1..Len(BlocksOf(i)) : FileImage(BlocksOf(i)[j])

(* C17: after Anthropic's from_provider was called twice in succession on  *)
(* the same message sequence, the second outcome equals the first, and the *)
(* input is as it was before the first call: no file object of an image    *)
(* block has moved its read position.                                      *)
C17_Repeatable ==
    op = "Anthropic.from_provider twice" =>
        /\ res.out = res.first
        /\ FilesUnread

\* the same statement for sequences without an image given as a file object
C17_RepeatableWithoutFileObjects ==
    (op = "Anthropic.from_provider twice" /\ ~HasFileImage) =>
        /\ res.out = res.first
        /\ FilesUnread

====
